---- MODULE Spec2Model ----
(***************************************************************************)
(* The PPO agent of Pendulum_PPO.py (class PPO: the bounded experience     *)
(* memory, store, and the train method with its target computation and its *)
(* clipped-surrogate epoch loop) and the training loop train_agent that    *)
(* drives it (reward shaping, rolling score, checkpoints, success halt).   *)
(*                                                                         *)
(* Numbers.  Values, rewards, targets, advantages and probability ratios   *)
(* are fixed point in hundredths (Unit = 1.0).  Log-probabilities are      *)
(* counted in units of ln 2, so exp of a difference is a power of two.     *)
(* Raw environment rewards are counted in ticks of 1e-7.                   *)
(***************************************************************************)
EXTENDS Integers, Sequences, FiniteSets, TLC

VARIABLES
    memory,     \* PPO.memory: the list of stored experiences
    update,     \* PPO.update: the counter of eligible train calls
    actor,      \* the Actor's parameters: the policy mean of every state
    critic,     \* the Critic's parameters: the value of every state
    optSteps,   \* the step counts of optimizer_critic and optimizer_actor
    pc,         \* the position of the single thread of control
    world,      \* what lies outside the program: who calls the agent, the
                \* environment, the random source, what the optimizers yield
    samples,    \* train: the batch drawn by random.sample
    picked,     \* train: the memory positions random.sample drew (history)
    q,          \* train: the targets q[i]
    adv,        \* train: the advantages adv[i]
    i,          \* train: the epoch index of "for i in range(EPOCH)"
    ratio,      \* train: the ratio of every batch element in this epoch
    clip,       \* train: the clamped ratio of every batch element
    surr,       \* train: surr[y] of this epoch
    entry,      \* history: optSteps and update when train was entered
    hist,       \* history: the last MEMORY_SIZE experiences handed to store
    last,       \* history: the last agent operation that completed
    s,          \* train_agent: the current state
    a,          \* train_agent: the clamped action
    log_prob,   \* train_agent: the log-probability of the sampled action
    s2,         \* train_agent: the next state
    r,          \* train_agent: the shaped reward (r after line 216)
    done,       \* train_agent: the done flag of env.step
    raw,        \* history: the reward env.step returned (r before line 216)
    steps,      \* the environment: the steps taken in this episode
    rewards,    \* train_agent: the sum of the raw rewards of this episode
    episode,    \* train_agent: the count of completed episodes
    results,    \* train_agent: the rolling window of episode sums
    score,      \* train_agent: the rolling mean, as a fraction
    file,       \* the checkpoint file SAVE_FILE_PATH
    saves,      \* history: how many times torch.save was called
    self,       \* the PPO instance whose method runs: memory, update, actor,
                \* critic and optSteps are what self.memory, self.update,
                \* ... resolve to
    own,        \* the attributes every other PPO instance holds itself
    by          \* history: the instance each experience of hist was stored
                \* through

agentVars == <<memory, update, actor, critic, optSteps>>
trainVars == <<samples, picked, q, adv, i, ratio, clip, surr>>
stepVars == <<s, a, log_prob, s2, r, done, raw, steps>>
loopVars == <<rewards, episode, results, score, file, saves>>
sceneVars == <<world, self, own, by>>
vars == <<memory, update, actor, critic, optSteps, pc, world, samples, picked,
          q, adv, i, ratio, clip, surr, entry, hist, last, s, a, log_prob, s2,
          r, done, raw, steps, rewards, episode, results, score, file, saves,
          self, own, by>>

----------------------------------------------------------------------------
(* Units and bounds *)

Unit == 10 * 10

\* class constants of PPO, scaled down to keep the model finite
MEMORY_SIZE == 3
BATCH_SIZE == 2
EPOCH == 2

\* class constants of PPO, as in the source
GAMMA_NUM == 9
GAMMA_DEN == 10
EPSILON == 20
UPDATE == 1

\* 1e-10 = 10^-TINY_EXP, the constant added to old_log_prob
TINY_EXP == 10
\* the significand width of torch.float32, the dtype of every tensor here
MANT32 == 24

\* train_agent: the rolling window (np.full(100, ...), len(results) > 100,
\* / 100), its placeholder, the success threshold, the checkpoint period
WINDOW_INIT == 100
WINDOW_MAX == 100
WINDOW_DIV == 100
PLACEHOLDER == -2000
THRESHOLD == -300
CHECKPOINT == 20

\* 16.2736044, the divisor of the reward shaping, in ticks of 1e-7
REWARD_DIV == 162736044

\* bound of the harness: how many train calls reach the optimisation
MaxUpdate == 1

\* bounds of the environments: the episodes train_agent is followed for
\* and the time limit of an episode, in the eventful and in the long world
MaxEpisodes == 2
MaxSteps == 2
LongRun == 86

Ticks == 10 * 1000 * 1000

States == {0, 1}
Actions == {0, 1}
Vals == {0, 2 * Unit}

CriticParams == [States -> Vals]
ActorParams == [States -> Actions]

\* outputs_range of the agent: env.action_space.low and high
OutputsRange == <<0, 1>>

Experience(st, next, rw, act, dn, lp) ==
    [s |-> st, s2 |-> next, r |-> rw, a |-> act, done |-> dn,
     old_log_prob |-> lp]

\* the experiences the harness hands to store
Inputs ==
    { Experience(0, 1, Unit, 1, FALSE, -1),
      Experience(0, 1, Unit, 1, TRUE, -1),
      Experience(1, 1, 0, 0, FALSE, 0) }

----------------------------------------------------------------------------
(* Pure functions *)

Abs(x) == IF x < 0 THEN -x ELSE x
Min(x, y) == IF x <= y THEN x ELSE y
Max(x, y) == IF x >= y THEN x ELSE y

\* store with memory.pop() for memory.pop(0): the newest entry is dropped
storePopLast(mem, e) ==
    LET m1 == Append(mem, e)
    IN  IF Len(m1) > MEMORY_SIZE THEN SubSeq(m1, 1, Len(m1) - 1) ELSE m1

\* PPO.store: append, then drop the first entry when over capacity
store(mem, e) ==
    LET m1 == Append(mem, e)
    IN  IF Len(m1) > MEMORY_SIZE THEN Tail(m1) ELSE m1

\* random.choices for random.sample: positions drawn with replacement
SampleWithReplacement(mem, k) == [1..k -> 1..Len(mem)]

\* random.sample(population, k): every sequence of k distinct positions
Sample(mem, k) ==
    { p \in [1..k -> 1..Len(mem)] : \A x, y \in 1..k : x # y => p[x] # p[y] }

\* Critic.forward on one state
V(c, st) == c[st]

\* the target with the bootstrap term masked by (1 - done)
TargetMasked(c, e) ==
    e.r + (IF e.done THEN 0 ELSE (GAMMA_NUM * c[e.s2]) \div GAMMA_DEN)

\* q[i] = rewards[i] + GAMMA * v2[i]
Target(c, e) == e.r + (GAMMA_NUM * V(c, e.s2)) \div GAMMA_DEN

\* adv = q - v
Advantage(c, e) == Target(c, e) - V(c, e.s)

\* Normal(mean, std).log_prob(a), in units of ln 2: falls with the distance
LogProb(mean, act) == -Abs(act - mean)

\* x < 10^e, for x >= 0, without forming 10^e
RECURSIVE Lt10Pow(_, _)
Lt10Pow(x, e) == IF e = 0 THEN x < 1 ELSE Lt10Pow(x \div 10, e - 1)

\* In float32 a perturbation of the exponent by 1e-10 changes exp by less
\* than half a unit in the last place (2^-(MANT32+1)) and is rounded away.
TinyAbsorbed == Lt10Pow(2 ^ (MANT32 + 1), TINY_EXP)

\* 2^d in hundredths, d in -2..2
Pow2(d) == IF d >= 0 THEN Unit * (2 ^ d) ELSE Unit \div (2 ^ (-d))

\* the ratio with the sign of old_log_prob slipped: exp(new + old)
RatioSum(new, old) ==
    LET exact == Pow2(new + old)
    IN  IF TinyAbsorbed THEN exact ELSE exact - 1

\* ratio = torch.exp(pi.log_prob(a) - (old_log_prob + 1e-10))
Ratio(new, old) ==
    LET exact == Pow2(new - old)
    IN  IF TinyAbsorbed THEN exact ELSE exact - 1

\* clip = ratio.clamp(1.0 - EPSILON, 1.0 + EPSILON)
Clamp(x, lo, hi) == Min(Max(x, lo), hi)
Clip(rt) == Clamp(rt, Unit - EPSILON, Unit + EPSILON)

\* the surrogate without the pessimistic minimum
SurrUnclipped(rt, ad) == rt * ad

\* surr[y] = torch.min(ratio * adv[y], clip * adv[y])
Surr(rt, ad) == Min(rt * ad, Clip(rt) * ad)

\* PPO.action: the clamped sample and the log-probability of the sample
Act(params, state, sample) ==
    [a |-> Clamp(sample, OutputsRange[1], OutputsRange[2]),
     log_prob |-> LogProb(params[state], sample)]

\* the shaping onto [0, 1]: (r / 16.2736044) + 1.0
ShapeToUnitInterval(x) == ((x * 10) \div REWARD_DIV) * (Unit \div 10) + Unit

\* r = (r / 16.2736044) + 0.5, from ticks to hundredths; exact where the
\* quotient is a whole number of tenths
Shape(x) == ((x * 10) \div REWARD_DIV) * (Unit \div 10) + Unit \div 2

\* a number too wide for ticks alone: <<whole part, ticks>>, ticks >= 0
Wide(x) == <<x \div Ticks, x % Ticks>>

\* the sum of component k of the first n elements
RECURSIVE SumAt(_, _, _)
SumAt(seq, k, n) ==
    IF n = 0 THEN 0 ELSE seq[n][k] + SumAt(seq, k, n - 1)

\* np.sum(np.asarray(results))
SumWide(seq) ==
    LET ticks == SumAt(seq, 2, Len(seq))
    IN  <<SumAt(seq, 1, Len(seq)) + ticks \div Ticks, ticks % Ticks>>

\* a wide number is at least the whole number n
GeqInt(w, n) == w[1] >= n

\* a wide number is more than the whole number n
GtInt(w, n) == w[1] > n \/ (w[1] = n /\ w[2] > 0)

\* the window with results.pop() for results.pop(0)
WindowPopLast(res, x) ==
    LET w == Append(res, x)
    IN  IF Len(w) > WINDOW_MAX THEN SubSeq(w, 1, Len(w) - 1) ELSE w

\* results.append(rewards), and results.pop(0) when over the window
Window(res, x) ==
    LET w == Append(res, x)
    IN  IF Len(w) > WINDOW_MAX THEN Tail(w) ELSE w

\* score = np.sum(np.asarray(results)) / 100
Score(res) == [num |-> SumWide(res), den |-> WINDOW_DIV]

\* score > -300
SuccessStrict(sc) == GtInt(sc.num, THRESHOLD * sc.den)

\* score >= -300
Success(sc) == GeqInt(sc.num, THRESHOLD * sc.den)

\* the last n elements of a sequence
LastN(seq, n) ==
    IF Len(seq) <= n THEN seq ELSE SubSeq(seq, Len(seq) - n + 1, Len(seq))

\* the PPO instances a caller may create
Agents == {1, 2}

\* a PPO in which __init__ also binds self.memory = []: every instance
\* holds a list of its own
AttrsWithMemory(mem, upd, act, crt, opt) ==
    [memory |-> mem, update |-> upd, actor |-> act, critic |-> crt,
     optSteps |-> opt]

\* the attributes an instance holds itself: the networks and optimizers
\* __init__ binds (lines 80-84) and the update that "self.update += 1"
\* binds (line 109; until then self.update reads the class's 0, which
\* nothing ever changes).  memory is bound by the class statement of
\* line 73 only: no method assigns self.memory, store and train only
\* call methods of the list it resolves to.
Attrs(mem, upd, act, crt, opt) ==
    [update |-> upd, actor |-> act, critic |-> crt, optSteps |-> opt]

\* p.memory: the attribute of the instance if it holds one, otherwise
\* the attribute of the class
MemoryOf(p) ==
    IF p = self THEN memory
    ELSE IF "memory" \in DOMAIN own[p] THEN own[p].memory
    ELSE memory

Ret == IF world.caller = "harness" THEN "idle" ELSE "advance"

NoLocals ==
    /\ samples' = <<>>
    /\ picked' = <<>>
    /\ q' = <<>>
    /\ adv' = <<>>
    /\ i' = 0
    /\ ratio' = <<>>
    /\ clip' = <<>>
    /\ surr' = <<>>

----------------------------------------------------------------------------
(* PPO.train, step by step *)

\* train with line 109 before line 106: the call is counted, then skipped
TrainSkipCounted ==
    /\ pc = "train"
    /\ Len(memory) < BATCH_SIZE
    /\ update' = update + 1
    /\ pc' = Ret
    /\ last' = "skip"
    /\ UNCHANGED <<memory, actor, critic, optSteps, trainVars, sceneVars, entry,
                   hist, stepVars, loopVars>>

\* line 106-107: the memory holds fewer than BATCH_SIZE experiences
TrainSkip ==
    /\ pc = "train"
    /\ Len(memory) < BATCH_SIZE
    /\ pc' = Ret
    /\ last' = "skip"
    /\ UNCHANGED <<agentVars, trainVars, sceneVars, entry, hist, stepVars, loopVars>>

\* lines 109-116: count the call, then draw the batch
TrainSample ==
    /\ pc = "train"
    /\ ~(Len(memory) < BATCH_SIZE)
    /\ update' = update + 1
    /\ IF update' % UPDATE # 0
       THEN /\ pc' = Ret
            /\ last' = "skip"
            /\ UNCHANGED trainVars
       ELSE /\ \E p \in Sample(memory, BATCH_SIZE) :
                 /\ picked' = p
                 /\ samples' = [k \in 1..BATCH_SIZE |-> memory[p[k]]]
            /\ pc' = "targets"
            /\ UNCHANGED <<q, adv, i, ratio, clip, surr, last>>
    /\ UNCHANGED <<memory, actor, critic, optSteps, sceneVars, entry, hist, stepVars,
                   loopVars>>

\* lines 118-136: the targets and advantages, under torch.no_grad()
TrainTargets ==
    /\ pc = "targets"
    /\ q' = [k \in 1..BATCH_SIZE |-> Target(critic, samples[k])]
    /\ adv' = [k \in 1..BATCH_SIZE |-> Advantage(critic, samples[k])]
    /\ i' = 0
    /\ pc' = "epoch"
    /\ UNCHANGED <<agentVars, sceneVars, samples, picked, ratio, clip, surr,
                   entry, hist, last, stepVars, loopVars>>

\* lines 138-161: one pass of the epoch loop up to the losses
EpochEval ==
    /\ pc = "epoch"
    /\ i < EPOCH
    /\ ratio' = [y \in 1..BATCH_SIZE |->
                   Ratio(LogProb(actor[samples[y].s], samples[y].a),
                         samples[y].old_log_prob)]
    /\ clip' = [y \in 1..BATCH_SIZE |-> Clip(ratio'[y])]
    /\ surr' = [y \in 1..BATCH_SIZE |-> Surr(ratio'[y], adv[y])]
    /\ pc' = "critic_step"
    /\ UNCHANGED <<agentVars, sceneVars, samples, picked, q, adv, i, entry, hist,
                   last, stepVars, loopVars>>

\* lines 163-165: one step of optimizer_critic; what Adam makes of the
\* gradient is outside the program, so any parameters may result
CriticStep ==
    /\ pc = "critic_step"
    /\ \E c \in world.critics : critic' = c
    /\ optSteps' = [optSteps EXCEPT !.critic = @ + 1]
    /\ pc' = "actor_step"
    /\ UNCHANGED <<memory, update, actor, sceneVars, trainVars, entry, hist, last,
                   stepVars, loopVars>>

\* the epoch loop with the targets computed inside it: after the actor's
\* step the next pass starts at line 126
ActorStepRetarget ==
    /\ pc = "actor_step"
    /\ \E p \in world.actors : actor' = p
    /\ optSteps' = [optSteps EXCEPT !.actor = @ + 1]
    /\ ratio' = <<>>
    /\ clip' = <<>>
    /\ surr' = <<>>
    /\ pc' = IF i + 1 < EPOCH THEN "targets" ELSE "epoch"
    /\ i' = i + 1
    /\ UNCHANGED <<memory, update, critic, sceneVars, samples, picked, q, adv,
                   entry, hist, last, stepVars, loopVars>>

\* lines 167-169: one step of optimizer_actor; the pass is over, and its
\* temporaries (surr, ratio, clip) are dead until line 140 renews them
ActorStep ==
    /\ pc = "actor_step"
    /\ \E p \in world.actors : actor' = p
    /\ optSteps' = [optSteps EXCEPT !.actor = @ + 1]
    /\ i' = i + 1
    /\ ratio' = <<>>
    /\ clip' = <<>>
    /\ surr' = <<>>
    /\ pc' = "epoch"
    /\ UNCHANGED <<memory, update, critic, sceneVars, samples, picked, q, adv,
                   entry, hist, last, stepVars, loopVars>>

\* the epoch loop is over: train returns, its locals die
TrainReturn ==
    /\ pc = "epoch"
    /\ ~(i < EPOCH)
    /\ NoLocals
    /\ pc' = Ret
    /\ last' = "optimise"
    /\ UNCHANGED <<agentVars, sceneVars, entry, hist, stepVars, loopVars>>

Train ==
    \/ TrainSkip
    \/ TrainSample
    \/ TrainTargets
    \/ EpochEval
    \/ CriticStep
    \/ ActorStep
    \/ TrainReturn

----------------------------------------------------------------------------
(* The harness: any caller of store and train *)

HarnessStore ==
    /\ pc = "idle"
    /\ world.caller = "harness"
    /\ \E e \in world.inputs :
         /\ memory' = store(memory, e)
         /\ hist' = LastN(Append(hist, e), MEMORY_SIZE)
    /\ by' = LastN(Append(by, self), MEMORY_SIZE)
    /\ last' = IF Len(memory) >= MEMORY_SIZE THEN "evict" ELSE "store"
    /\ UNCHANGED <<update, actor, critic, optSteps, pc, world, self, own,
                   trainVars, entry, stepVars, loopVars>>

HarnessTrain ==
    /\ pc = "idle"
    /\ world.caller = "harness"
    /\ update < MaxUpdate
    /\ pc' = "train"
    /\ entry' = [optSteps |-> optSteps, update |-> update]
    /\ UNCHANGED <<agentVars, sceneVars, trainVars, hist, last, stepVars, loopVars>>

\* the caller turns to another of its instances: the next store or train
\* runs with that instance as self
Enter ==
    /\ pc = "idle"
    /\ world.caller = "harness"
    /\ \E p \in world.agents \ {self} :
         /\ self' = p
         /\ own' = [o \in world.agents \ {p} |->
                      IF o = self
                      THEN Attrs(memory, update, actor, critic, optSteps)
                      ELSE own[o]]
         /\ memory' = MemoryOf(p)
         /\ update' = own[p].update
         /\ actor' = own[p].actor
         /\ critic' = own[p].critic
         /\ optSteps' = own[p].optSteps
    /\ UNCHANGED <<pc, world, by, trainVars, entry, hist, last, stepVars,
                   loopVars>>

----------------------------------------------------------------------------
(* train_agent *)

\* lines 205-206: a new episode
Reset ==
    /\ pc = "reset"
    /\ episode < world.horizon
    /\ rewards' = 0
    /\ \E st \in world.starts : s' = st
    /\ steps' = 0
    /\ pc' = "act"
    /\ UNCHANGED <<agentVars, trainVars, sceneVars, entry, hist, last, a, log_prob,
                   s2, r, done, raw, episode, results, score, file, saves>>

\* lines 210-216: the action, the step of the environment (which ends the
\* episode at its time limit at the latest), the sum, the shaping
ActAndStep ==
    /\ pc = "act"
    /\ \E sample \in world.noise, next \in world.nexts, rw \in world.rewards,
          d \in (IF steps + 1 >= world.limit THEN {TRUE} ELSE world.dones) :
         /\ a' = Act(actor, s, sample).a
         /\ log_prob' = Act(actor, s, sample).log_prob
         /\ s2' = next
         /\ raw' = rw
         /\ done' = d
         /\ rewards' = rewards + rw
         /\ r' = Shape(rw)
    /\ steps' = steps + 1
    /\ pc' = "store"
    /\ UNCHANGED <<agentVars, trainVars, sceneVars, entry, hist, last, s, episode,
                   results, score, file, saves>>

\* line 218, and the call of line 219
LoopStore ==
    /\ pc = "store"
    /\ LET e == Experience(s, s2, r, a, done, log_prob)
       IN  /\ memory' = store(memory, e)
           /\ hist' = LastN(Append(hist, e), MEMORY_SIZE)
    /\ by' = LastN(Append(by, self), MEMORY_SIZE)
    /\ last' = IF Len(memory) >= MEMORY_SIZE THEN "evict" ELSE "store"
    /\ entry' = [optSteps |-> optSteps, update |-> update]
    /\ pc' = "train"
    /\ UNCHANGED <<update, actor, critic, optSteps, world, self, own,
                   trainVars, stepVars, loopVars>>

\* lines 221-223
Advance ==
    /\ pc = "advance"
    /\ s' = s2
    /\ pc' = IF done THEN "episode_end" ELSE "act"
    /\ UNCHANGED <<agentVars, trainVars, sceneVars, entry, hist, last, a, log_prob,
                   s2, r, done, raw, steps, loopVars>>

\* lines 226-247: the window, the score, then the success halt or the
\* count of the episode and the periodic checkpoint
EpisodeEnd ==
    /\ pc = "episode_end"
    /\ results' = Window(results, Wide(rewards))
    /\ score' = Score(results')
    /\ IF Success(score')
       THEN /\ file' = <<critic, actor>>
            /\ saves' = saves + 1
            /\ pc' = "halted"
            /\ UNCHANGED episode
       ELSE /\ episode' = episode + 1
            /\ IF episode' % CHECKPOINT = 0
               THEN file' = <<critic, actor>> /\ saves' = saves + 1
               ELSE UNCHANGED <<file, saves>>
            /\ pc' = "reset"
    /\ UNCHANGED <<agentVars, trainVars, sceneVars, entry, hist, last, stepVars,
                   rewards>>

TrainAgent ==
    \/ Reset
    \/ ActAndStep
    \/ LoopStore
    \/ Advance
    \/ EpisodeEnd

----------------------------------------------------------------------------
(* The worlds *)

\* any caller of the agent; optimizers that can leave any value function
\* and either of two policies
HarnessWorld ==
    [caller |-> "harness", agents |-> {1}, inputs |-> Inputs,
     critics |-> CriticParams,
     actors |-> {[st \in States |-> 0], [st \in States |-> 1]},
     starts |-> {0}, nexts |-> {0}, noise |-> {0}, rewards |-> {0},
     dones |-> {TRUE}, limit |-> 1, horizon |-> 0]

\* train_agent in an eventful environment, followed for a few episodes
EventfulWorld ==
    [caller |-> "train_agent", agents |-> {1}, inputs |-> {},
     critics |-> {[st \in States |-> 2 * Unit]},
     actors |-> {[st \in States |-> 1]},
     starts |-> {0}, nexts |-> {1}, noise |-> {2},
     rewards |-> {-REWARD_DIV, 0},
     dones |-> {TRUE, FALSE}, limit |-> MaxSteps, horizon |-> MaxEpisodes]

\* train_agent in a quiet environment (one-step episodes of reward 0, a
\* policy and a value function at rest), followed to the success halt
QuietWorld ==
    [caller |-> "train_agent", agents |-> {1}, inputs |-> {},
     critics |-> {[st \in States |-> 0]},
     actors |-> {[st \in States |-> 0]},
     starts |-> {0}, nexts |-> {0}, noise |-> {0}, rewards |-> {0},
     dones |-> {TRUE}, limit |-> 1, horizon |-> LongRun]

\* train_agent in an environment that pays for every step (two-step
\* episodes of reward 20 a step), followed to the success halt
BrightWorld ==
    [caller |-> "train_agent", agents |-> {1}, inputs |-> {},
     critics |-> {[st \in States |-> 0]},
     actors |-> {[st \in States |-> 0]},
     starts |-> {0}, nexts |-> {0}, noise |-> {0}, rewards |-> {20 * Ticks},
     dones |-> {FALSE}, limit |-> 2, horizon |-> LongRun]

\* a caller that has created two agents and calls store and train of
\* either, in any order
SharedWorld ==
    [caller |-> "harness", agents |-> Agents,
     inputs |-> {e \in Inputs : ~e.done},
     critics |-> {[st \in States |-> 0]},
     actors |-> {[st \in States |-> 1]},
     starts |-> {0}, nexts |-> {0}, noise |-> {0}, rewards |-> {0},
     dones |-> {TRUE}, limit |-> 1, horizon |-> 0]

NoScore == [num |-> <<0, 0>>, den |-> 1]

InitAgent ==
    /\ memory = <<>>
    /\ update = 0
    /\ actor \in world.actors
    /\ critic \in world.critics
    /\ optSteps = [critic |-> 0, actor |-> 0]
    /\ samples = <<>>
    /\ picked = <<>>
    /\ q = <<>>
    /\ adv = <<>>
    /\ i = 0
    /\ ratio = <<>>
    /\ clip = <<>>
    /\ surr = <<>>
    /\ entry = [optSteps |-> optSteps, update |-> update]
    /\ hist = <<>>
    /\ last = "none"
    /\ self = 1
    /\ \E act \in world.actors, crt \in world.critics :
         own = [o \in world.agents \ {self} |->
                  Attrs(<<>>, 0, act, crt, [critic |-> 0, actor |-> 0])]
    /\ by = <<>>

\* a window that starts empty
EmptyWindow == <<>>

\* line 201: np.full(100, -2000).tolist()
FullWindow == [k \in 1..WINDOW_INIT |-> <<PLACEHOLDER, 0>>]

\* lines 200-201, before the first episode
InitLoop ==
    /\ s = 0
    /\ a = 0
    /\ log_prob = 0
    /\ s2 = 0
    /\ r = 0
    /\ done = FALSE
    /\ raw = 0
    /\ steps = 0
    /\ rewards = 0
    /\ episode = 0
    /\ results = FullWindow
    /\ score = NoScore
    /\ file = <<>>
    /\ saves = 0

Init ==
    /\ world = HarnessWorld
    /\ InitAgent
    /\ InitLoop
    /\ pc = "idle"

Next ==
    \/ HarnessStore
    \/ HarnessTrain
    \/ Train

Spec == Init /\ [][Next]_vars

InitTrainAgent ==
    /\ world \in {EventfulWorld, QuietWorld, BrightWorld}
    /\ InitAgent
    /\ InitLoop
    /\ pc = "reset"

NextTrainAgent ==
    \/ TrainAgent
    \/ Train

SpecLoop == InitTrainAgent /\ [][NextTrainAgent]_vars

InitShared ==
    /\ world = SharedWorld
    /\ InitAgent
    /\ InitLoop
    /\ pc = "idle"

NextShared ==
    \/ HarnessStore
    \/ HarnessTrain
    \/ Enter
    \/ Train

SpecShared == InitShared /\ [][NextShared]_vars

----------------------------------------------------------------------------
(* Properties of the agent *)

TrainBody == {"targets", "epoch", "critic_step", "actor_step"}
EpochLoop == {"epoch", "critic_step", "actor_step"}
Evaluated == {"critic_step", "actor_step"}

\* two experiences that differ in nothing but the done flag
DifferOnlyInDone(e, f) ==
    /\ e.done # f.done
    /\ [e EXCEPT !.done = f.done] = f

\* C1: the memory never holds more than MEMORY_SIZE experiences and always
\* holds exactly the last MEMORY_SIZE experiences handed to store (all of
\* them while there were fewer), in the order they were stored.
C1_Capacity ==
    /\ Len(memory) <= MEMORY_SIZE
    /\ memory = hist

\* a store has found the memory full and evicted: the memory is full and
\* is what the last MEMORY_SIZE stores left
C1_Witness ==
    /\ last = "evict"
    /\ Len(memory) = MEMORY_SIZE
    /\ memory = hist
    /\ \E x, y \in 1..Len(memory) : memory[x] # memory[y]

\* C2: whenever train holds a batch, the memory holds at least BATCH_SIZE
\* experiences, the batch has exactly BATCH_SIZE elements, they sit at
\* pairwise distinct positions of the memory, and each is the experience
\* the memory holds at its position.
C2_Sampling ==
    pc \in TrainBody =>
        /\ Len(memory) >= BATCH_SIZE
        /\ Len(samples) = BATCH_SIZE
        /\ Len(picked) = BATCH_SIZE
        /\ \A x \in 1..BATCH_SIZE :
             /\ picked[x] \in 1..Len(memory)
             /\ samples[x] = memory[picked[x]]
        /\ \A x, y \in 1..BATCH_SIZE : x # y => picked[x] # picked[y]

\* a batch drawn from a memory that holds more than a batch
C2_Witness ==
    /\ pc = "targets"
    /\ Len(memory) > BATCH_SIZE
    /\ Len(samples) = BATCH_SIZE
    /\ picked[1] > picked[2]

\* C3: a train call that finds fewer than BATCH_SIZE experiences returns
\* to its caller and leaves the memory, the update counter, the actor, the
\* critic and both optimizers as they were.
C3_SkipIsNoOp ==
    [][(pc = "train" /\ Len(memory) < BATCH_SIZE) =>
         /\ pc' = Ret
         /\ memory' = memory
         /\ update' = update
         /\ actor' = actor
         /\ critic' = critic
         /\ optSteps' = optSteps]_vars

\* train has returned from a memory too small for a batch, all as before
C3_Witness ==
    /\ last = "skip"
    /\ pc = Ret
    /\ Len(memory) < BATCH_SIZE
    /\ update = 0
    /\ optSteps = [critic |-> 0, actor |-> 0]

\* C7: right after the targets are computed, q = r + GAMMA * V(next state)
\* and adv = q - V(state) for every batch element, two batch elements that
\* differ only in done have the same q and adv, and r = 1.0 with
\* V(next state) = V(state) = 2.0 gives q = 2.8 and adv = 0.8.
C7_Targets ==
    (pc = "epoch" /\ i = 0) =>
        /\ \A k \in 1..BATCH_SIZE :
             /\ GAMMA_DEN * q[k] =
                    GAMMA_DEN * samples[k].r + GAMMA_NUM * critic[samples[k].s2]
             /\ adv[k] = q[k] - critic[samples[k].s]
             /\ ( /\ samples[k].r = Unit
                  /\ critic[samples[k].s2] = 2 * Unit
                  /\ critic[samples[k].s] = 2 * Unit )
                => (q[k] = 280 /\ adv[k] = 80)
        /\ \A x, y \in 1..BATCH_SIZE :
             DifferOnlyInDone(samples[x], samples[y])
                => (q[x] = q[y] /\ adv[x] = adv[y])

\* a batch with a terminal and a non-terminal copy of one transition, with
\* the values of the example
C7_Witness ==
    /\ pc = "epoch"
    /\ i = 0
    /\ DifferOnlyInDone(samples[1], samples[2])
    /\ samples[1].done
    /\ q = <<280, 280>>
    /\ adv = <<80, 80>>

\* C8: once an epoch has evaluated the batch, every surr[y] is the smaller
\* of ratio * adv and clamp(ratio, 1 - EPSILON, 1 + EPSILON) * adv; where
\* ratio > 1 + EPSILON and adv > 0 the clipped term is (1 + EPSILON) * adv,
\* is below ratio * adv and is surr[y]; ratio 2.0 and adv 1.0 give 1.2.
C8_Surrogate ==
    pc \in Evaluated =>
        \A y \in 1..BATCH_SIZE :
            LET unclipped == ratio[y] * adv[y]
                clipped == clip[y] * adv[y]
            IN  /\ clip[y] >= Unit - EPSILON
                /\ clip[y] <= Unit + EPSILON
                /\ (ratio[y] >= Unit - EPSILON /\ ratio[y] <= Unit + EPSILON)
                      => clip[y] = ratio[y]
                /\ ratio[y] < Unit - EPSILON => clip[y] = Unit - EPSILON
                /\ ratio[y] > Unit + EPSILON => clip[y] = Unit + EPSILON
                /\ surr[y] <= unclipped
                /\ surr[y] <= clipped
                /\ surr[y] \in {unclipped, clipped}
                /\ (ratio[y] > Unit + EPSILON /\ adv[y] > 0) =>
                      /\ clipped = (Unit + EPSILON) * adv[y]
                      /\ clipped < unclipped
                      /\ surr[y] = clipped
                /\ (ratio[y] = 2 * Unit /\ adv[y] = Unit) =>
                      surr[y] = 120 * Unit

\* the example: ratio 2.0, adv 1.0, surr 1.2
C8_Witness ==
    /\ pc \in Evaluated
    /\ \E y \in 1..BATCH_SIZE :
         /\ ratio[y] = 2 * Unit
         /\ adv[y] = Unit
         /\ clip[y] = 120
         /\ surr[y] = 120 * Unit

\* the stored action of batch element y is as likely under the current
\* policy as its old_log_prob says
SameLogProb(y) ==
    LogProb(actor[samples[y].s], samples[y].a) = samples[y].old_log_prob

\* C9: once an epoch has evaluated the batch under a policy that gives
\* every stored action its old_log_prob, every ratio is exactly 1 and the
\* clipped and unclipped terms are equal.
C9_RatioIdentity ==
    (pc \in Evaluated /\ \A y \in 1..BATCH_SIZE : SameLogProb(y)) =>
        \A y \in 1..BATCH_SIZE :
            /\ ratio[y] = Unit
            /\ clip[y] * adv[y] = ratio[y] * adv[y]

\* such a batch, its elements of different log-probability and with
\* advantages that are not zero
C9_Witness ==
    /\ pc \in Evaluated
    /\ \A y \in 1..BATCH_SIZE : SameLogProb(y) /\ ratio[y] = Unit /\ adv[y] # 0
    /\ samples[1].old_log_prob # samples[2].old_log_prob

\* what every state of a train call shows of its order
C10_Order ==
    /\ pc = "targets" => optSteps = entry.optSteps
    /\ pc \in EpochLoop =>
         /\ i <= EPOCH
         /\ optSteps.actor = entry.optSteps.actor + i
         /\ optSteps.critic =
                entry.optSteps.critic + i + (IF pc = "actor_step" THEN 1 ELSE 0)
         /\ pc # "epoch" => i < EPOCH
    /\ pc \notin TrainBody =>
         /\ optSteps.critic = EPOCH * (update \div UPDATE)
         /\ optSteps.actor = EPOCH * (update \div UPDATE)

\* C10: the targets of a train call are computed before any optimizer step
\* of that call; from then to the return the batch, q and adv stay as they
\* are; the critic's optimizer steps first and the actor's second in every
\* epoch, and a call that optimises makes exactly EPOCH steps of each.
C10_Sequenced ==
    /\ []C10_Order
    /\ [][(pc \in EpochLoop /\ pc' \in EpochLoop) =>
            (samples' = samples /\ picked' = picked /\ q' = q /\ adv' = adv)]_vars
    /\ [][(pc' = "epoch" /\ pc # "epoch") =>
            (pc \in {"targets", "actor_step"} /\ (pc = "targets" => i' = 0))]_vars
    /\ [][q' # q => (pc = "targets" \/ pc' \notin TrainBody)]_vars

\* a train call has returned after its EPOCH epochs
C10_Witness ==
    /\ last = "optimise"
    /\ pc = Ret
    /\ update = 1
    /\ optSteps = [critic |-> EPOCH, actor |-> EPOCH]

----------------------------------------------------------------------------
(* Properties of train_agent *)

\* C4: every episode end appends the raw reward sum of the episode to the
\* window, which then holds 101 values, and evicts the oldest, so that the
\* window holds 100 values; the score is the sum of these 100 over 100.
C4_RollingScore ==
    [][pc = "episode_end" =>
         /\ Len(Append(results, Wide(rewards))) = 101
         /\ results' = Tail(results) \o <<Wide(rewards)>>
         /\ Len(results') = 100
         /\ score'.num = SumWide(results')
         /\ score'.den = 100]_vars

\* two episodes of different sums have ended: both sums close the window,
\* the placeholders before them, and the score is the mean of the window
C4_Witness ==
    /\ pc = "reset"
    /\ episode = 2
    /\ Len(results) = 100
    /\ results[98] = <<PLACEHOLDER, 0>>
    /\ results[99] = Wide(-REWARD_DIV)
    /\ results[100] = Wide(rewards)
    /\ rewards = -(2 * REWARD_DIV)
    /\ score = [num |-> <<-196049, 1791868>>, den |-> 100]

\* what an episode end does when the mean is, or is not, a success
C5_Decision(success) ==
    IF success
    THEN /\ pc' = "halted"
         /\ file' = <<critic, actor>>
         /\ saves' = saves + 1
    ELSE /\ pc' = "reset"
         /\ episode' = episode + 1
         /\ IF episode' % 20 = 0
            THEN file' = <<critic, actor>> /\ saves' = saves + 1
            ELSE file' = file /\ saves' = saves

\* C5 as amended: at every episode end, if the rolling mean is at least
\* -300 the parameters are saved and the loop halts for good; otherwise
\* the episode is counted and the loop goes on, and a checkpoint is saved
\* exactly when the count is a multiple of 20.  Nothing is saved and no
\* episode is counted anywhere else.
C5_HaltOrContinue ==
    /\ [][pc = "episode_end" =>
            C5_Decision(GeqInt(score'.num, -300 * score'.den))]_vars
    /\ [][pc # "halted"]_vars
    /\ [][pc # "episode_end" =>
            (file' = file /\ saves' = saves /\ episode' = episode)]_vars

\* C5 as claimed: the loop halts if the mean exceeds -300, and goes on
\* otherwise.
C5_Original ==
    /\ [][pc = "episode_end" =>
            C5_Decision(GtInt(score'.num, -300 * score'.den))]_vars
    /\ [][pc # "halted"]_vars
    /\ [][pc # "episode_end" =>
            (file' = file /\ saves' = saves /\ episode' = episode)]_vars

\* the loop has halted on a mean of -300, after the checkpoints of the
\* episodes 20, 40, 60 and 80 and the save of the success
C5_Witness ==
    /\ pc = "halted"
    /\ score = [num |-> <<-30000, 0>>, den |-> 100]
    /\ episode = 84
    /\ saves = 5
    /\ file = <<critic, actor>>

\* C6 as amended: the shaping maps the raw reward -16.2736044 to -0.5 and
\* the raw reward 0 to 0.5; the shaped reward is what is stored, and the
\* sum of the episode receives the raw reward.
C6_Shaping ==
    /\ [][pc = "act" =>
            /\ rewards' = rewards + raw'
            /\ raw' = -162736044 => r' = -(Unit \div 2)
            /\ raw' = 0 => r' = Unit \div 2]_vars
    /\ [][pc = "store" => memory'[Len(memory')].r = r]_vars

\* C6 as claimed: the raw reward -16.2736044 is shaped to 0.0, the raw
\* reward 0 to 0.5.
C6_Original ==
    /\ [][pc = "act" =>
            /\ rewards' = rewards + raw'
            /\ raw' = -162736044 => r' = 0
            /\ raw' = 0 => r' = Unit \div 2]_vars
    /\ [][pc = "store" => memory'[Len(memory')].r = r]_vars

\* the second step of an episode: the lowest raw reward after the highest,
\* shaped to 0.5 (stored) and to -0.5, the sum the raw one
C6_Witness ==
    /\ pc = "store"
    /\ steps = 2
    /\ raw = -162736044
    /\ r = -(Unit \div 2)
    /\ rewards = raw
    /\ memory # <<>>
    /\ memory[Len(memory)].r = Unit \div 2

----------------------------------------------------------------------------
(* Properties of the class *)

\* C11: with two PPO instances in one process there is one experience
\* buffer: the buffer each instance reads is the last MEMORY_SIZE
\* experiences stored through either instance, in the order of the stores
\* (so the capacity bound and the eviction of the oldest apply to the
\* stores of both together), and a batch drawn through an instance is
\* drawn from that sequence.
C11_SharedBuffer ==
    /\ \A p \in world.agents :
         /\ MemoryOf(p) = hist
         /\ Len(MemoryOf(p)) <= MEMORY_SIZE
    /\ Len(by) = Len(hist)
    /\ pc \in TrainBody =>
         \A k \in 1..BATCH_SIZE : samples[k] = hist[picked[k]]

\* the memory is full of experiences stored through both instances, the
\* last store has evicted, and instance 2 has drawn a batch made of
\* experiences that were all stored through instance 1
C11_Witness ==
    /\ world.agents = Agents
    /\ self = 2
    /\ pc = "targets"
    /\ last = "evict"
    /\ Len(memory) = MEMORY_SIZE
    /\ {by[k] : k \in 1..Len(by)} = Agents
    /\ \A k \in 1..BATCH_SIZE : by[picked[k]] = 1
----------------------------------------------------------------------------
(* Properties of the rolling window *)

\* an episode sum that is zero or negative
NonPositive(w) == w[1] < 0 \/ w = <<0, 0>>

\* C12: when the loop has halted and the raw reward sum of every episode
\* was zero or negative, at least 85 episodes have ended: the 84 counted
\* in episode and the one that halted.  The 100 placeholders of -2000
\* keep the mean below -300 until 85 of them have left the window.
C12_EarliestHalt ==
    (pc = "halted" /\ \A k \in 1..Len(results) : NonPositive(results[k]))
        => episode + 1 >= 85

\* the loop has halted at the end of its 85th episode, with 15
\* placeholders left in the window and 85 episode sums of zero
C12_Witness ==
    /\ pc = "halted"
    /\ episode + 1 = 85
    /\ \A k \in 1..Len(results) : NonPositive(results[k])
    /\ \A k \in 1..15 : results[k] = <<PLACEHOLDER, 0>>
    /\ \A k \in 16..Len(results) : results[k] = <<0, 0>>

\* with positive rewards the halt comes earlier: the loop has halted
\* before its 85th episode
C12_PaidHaltsEarlier ==
    /\ pc = "halted"
    /\ episode + 1 < 85
    /\ \E k \in 1..Len(results) : ~NonPositive(results[k])
====
